---- MODULE Spec2Model ----
(***************************************************************************)
(* rbxmanager: release-cache synchronisation (core/database.py,            *)
(* core/services/shared.py) and the install / update workflows             *)
(* (core/services/install.py, core/services/update.py).                    *)
(*                                                                         *)
(* Spec         one run of the tool: action prompt, workflow, exit.        *)
(* SpecCache    Database.write seen by a second instance reading the same  *)
(*              cache path while the write is in progress.                 *)
(* SpecValidate Shared.release_validation_verification as a pure function. *)
(***************************************************************************)
EXTENDS Integers, Sequences, FiniteSets, TLC

\* ------------------------------------------------------------------ bounds
\* Longest release list the API answers with.
MaxReleases == 2
\* Longest collection already persisted when the run starts.
MaxStored == 1
\* Oldest cache file, in days, when the run starts.
MaxDays == 8
\* Clock ticks per day (timedelta.days floors to whole days).
TicksPerDay == 2
\* Longest collection handed to release_validation_verification on its own.
MaxValidate == 3
\* Longest asset list of the release handed to install_roblox_studio on its own.
MaxAssets == 3
\* Longest collection persisted before Database.get and Database.write are run
\* on it one after the other.
MaxRoundTrip == 2
\* The longest entry name of an archive, in pieces.
MaxNameLen == 3

\* ------------------------------------------------------- program constants
\* shared.py:44   days_since_modification >= 7
RefreshDays == 7
\* database.py:222   days_since_modification >= 3
WarnDays == 3

\* ------------------------------------------------------------------ values
\* A key a JSON object or a dict does not have.
Missing == "<missing>"
\* value.get(key, "undefined")
Undefined == "undefined"

\* Mutant of GetOrUndefined: a missing key gives no default.
GetOrMissing(v) == v

\* dict.get(key, "undefined") on a value that is Missing or present.
GetOrUndefined(v) == IF v = Missing THEN Undefined ELSE v

\* Python dict keys: enumerate() indexes are ints, JSON object keys are strs.
\* The int key i is written "i<i>", the str key "<i>" is the bare digit.
IntKeys == <<"i0", "i1", "i2", "i3", "i4", "i5">>
StrKeys == <<"0", "1", "2", "3", "4", "5">>

\* json.dump writes an int key as its decimal string; a str key stays.
JsonKey(k) ==
    IF \E i \in 1..Len(IntKeys) : IntKeys[i] = k
    THEN StrKeys[CHOOSE i \in 1..Len(IntKeys) : IntKeys[i] = k]
    ELSE k

\* An ordered dict is a sequence of [key, val]; {} is the empty sequence.
EmptyDict == <<>>

\* The values of a dict in iteration order.
Values(d) == [i \in 1..Len(d) |-> d[i].val]

\* --------------------------------------------------- the release-list API
Asset(n) == [name |-> n]

\* Elements a release-list array can hold. An element is a JSON object with
\* optional tag_name / name / assets, or something that is not an object.
ApiObject(tag, nm, hasAssets, assets) ==
    [kind |-> "object", tag_name |-> tag, name |-> nm,
     has_assets |-> hasAssets, assets |-> assets]

\* Elements fetch_releases can process without raising.
GoodElements ==
    { ApiObject("v1.0", "First", TRUE, <<Asset("RbxPI.rbxm")>>),
      ApiObject("v2.0", "Second", TRUE,
                <<Asset("src.zip"), Asset("RbxPI.rbxm"), Asset("Alt.rbxm")>>),
      ApiObject(Missing, Missing, TRUE, <<Asset(Missing)>>) }

\* Elements on which the loop raises: an object without "assets", a string.
BadElements ==
    { ApiObject("v2.0", "NoAssets", FALSE, <<>>),
      [kind |-> "string", tag_name |-> Missing, name |-> Missing,
       has_assets |-> FALSE, assets |-> <<>>] }

SeqsUpTo(S, n) == UNION { [1..k -> S] : k \in 0..n }

\* What response.json() can be: an array of elements, or another JSON value
\* (size is its len(): 0 for {} and "", -1 for a value without len()).
JsonArray(items) == [kind |-> "array", size |-> Len(items), items |-> items]
JsonOther(kind, size) == [kind |-> kind, size |-> size, items |-> <<>>]

\* The loop stops at the first element it raises on: an array with a bad
\* element is given up to that element.
Bodies ==
    { JsonArray(s) : s \in SeqsUpTo(GoodElements, MaxReleases) }
      \cup { JsonArray(Append(s, b)) :
               s \in SeqsUpTo(GoodElements, MaxReleases - 1), b \in BadElements }
      \cup { JsonOther("object", 0), JsonOther("object", 1),
             JsonOther("string", 0), JsonOther("string", 1),
             JsonOther("null", -1) }

\* What requests.get + raise_for_status + response.json() can give.
Responses ==
    { [status |-> "ok", body |-> b] : b \in Bodies }
      \cup { [status |-> s, body |-> JsonOther("null", -1)] :
               s \in {"transport_error", "http_error", "not_json"} }

NoResponse == [status |-> "none", body |-> JsonOther("null", -1)]

\* database.py:172-179, one iteration of the loop: the release built from
\* one array element.
ParseElement(value) ==
    [tag |-> GetOrUndefined(value.tag_name),
     name |-> GetOrUndefined(value.name),
     assets |-> [i \in 1..Len(value.assets) |->
                    GetOrUndefined(value.assets[i].name)]]

\* Mutant of ElementRaises: an object without "assets" counts as one with no
\* asset.
ElementRaisesOnNonObject(value) == value.kind # "object"

\* value.get on a non-dict raises AttributeError; data[index]["assets"] on a
\* dict without that key raises KeyError.
ElementRaises(value) == value.kind # "object" \/ ~value.has_assets

\* database.py:166-179: whether the try block raises on the parsed body.
\* len(data) raises on null; enumerate() of a non-empty str or dict yields
\* str items, on which .get raises; an empty str or dict yields nothing.
BodyRaises(body) ==
    \/ body.size < 0
    \/ body.kind # "array" /\ body.size > 0
    \/ body.kind = "array" /\ \E i \in 1..Len(body.items) : ElementRaises(body.items[i])

\* database.py:170-179: the releases dict, keyed by the enumerate() index.
ParseBody(body) ==
    [i \in 1..Len(body.items) |->
        [key |-> IntKeys[i], val |-> ParseElement(body.items[i])]]

\* database.py:162-189: the outcome of the try block of fetch_releases.
FetchSucceeds(resp) == resp.status = "ok" /\ ~BodyRaises(resp.body)

\* ------------------------------------------------------- the cache file
\* The text of data.json as the tokens json.dump emits.
Open == [t |-> "{"]
Close == [t |-> "}"]
Entry(k, v) == [t |-> "entry", key |-> k, val |-> v]

\* database.py:82 json.dump(data, json_file, indent=4, ensure_ascii=False)
JsonDump(data) ==
    <<Open>> \o [i \in 1..Len(data) |-> Entry(JsonKey(data[i].key), data[i].val)]
             \o <<Close>>

\* Mutant of JsonValid: a parser that does not insist on the closing brace.
JsonValidLenient(text) ==
    /\ Len(text) >= 2
    /\ text[1] = Open
    /\ \A i \in 2..(Len(text) - 1) : text[i].t = "entry"

\* json.load accepts the text only when it is one complete object.
JsonValid(text) ==
    /\ Len(text) >= 2
    /\ text[1] = Open
    /\ text[Len(text)] = Close
    /\ \A i \in 2..(Len(text) - 1) : text[i].t = "entry"

JsonLoad(text) ==
    [i \in 1..(Len(text) - 2) |-> [key |-> text[i + 1].key, val |-> text[i + 1].val]]

\* database.py:93-117 Database.get: JSONDecodeError and FileNotFoundError
\* both give {}.
DatabaseGet(exists, text) ==
    IF exists /\ JsonValid(text) THEN JsonLoad(text) ELSE EmptyDict

\* database.py:120-143 Database.get_days_since_modification (file present).
DaysSinceModification(tNow, tMod) == (tNow - tMod) \div TicksPerDay

\* Mutants of NeedsFetch: the threshold excluded; the emptiness test dropped.
NeedsFetchStrict(c, d) == c = EmptyDict \/ d > RefreshDays
NeedsFetchAgeOnly(c, d) == d >= RefreshDays

\* Mutant of NeedsFetch: only an empty cache is refreshed.
NeedsFetchEmptyOnly(c, d) == c = EmptyDict

\* shared.py:44 the condition under which get_release refetches.
NeedsFetch(c, d) == c = EmptyDict \/ d >= RefreshDays

\* Mutant of ShowWarns: the threshold excluded.
ShowWarnsStrict(releases, d) == releases # EmptyDict /\ d > WarnDays

\* database.py:210-228 Database.show: whether the staleness warning prints.
ShowWarns(releases, d) == releases # EmptyDict /\ d >= WarnDays

\* ----------------------------------------------------- the project folder
\* Text is a sequence of one-character strings.
Unknown == <<"u", "n", "k", "n", "o", "w", "n">>

\* <install_dir>/RbxPI, or a staged src/RbxPI: where its files come from
\* ("old" for the installation found at start, else the release tag), the
\* text of its Version.txt (<<Missing>> when the file is absent) and whether
\* every file of it is there. origin "none": the folder does not exist.
Tree(origin, marker, whole) == [origin |-> origin, marker |-> marker, whole |-> whole]
NoTree == Tree("none", <<Missing>>, FALSE)
TreeExists(t) == t.origin # "none"

\* Version.txt texts of an installation found at start.
OldMarkers ==
    { <<Missing>>, <<"1", ".", "0", ".", "0">>, <<"1", ".", "0", ".", "0", "-", "b">>,
      <<>>, <<"1", ".", "2">> }

\* The paths the user can type at a directory prompt; "proj" is a directory.
PathInputs == {"proj", "nowhere"}
IsDir(p) == p = "proj"

\* The source archive GitHub serves for a tag: its name listing, whether it
\* is a readable zip and whether <top>/src/RbxPI is in it.
TopFolder(tag) ==
    CASE tag = "v1.0" -> "rbxpi-core-1.0"
      [] tag = "v2.0" -> "rbxpi-core-2.0"
      [] tag = "V1.0" -> "rbxpi-core-V1.0"
      [] OTHER -> "rbxpi-core-undefined"

ArchiveNames(tag, hasSrc) ==
    IF hasSrc
    THEN << <<TopFolder(tag), "">>, <<TopFolder(tag), "README.md">>,
            <<TopFolder(tag), "src", "RbxPI", "Version.txt">> >>
    ELSE << <<TopFolder(tag), "">>, <<TopFolder(tag), "README.md">> >>

Archive(tag, zip, hasSrc) ==
    [tag |-> tag, zip |-> zip, has_src |-> hasSrc, names |-> ArchiveNames(tag, hasSrc)]
NoArchive == [tag |-> "none", zip |-> FALSE, has_src |-> FALSE, names |-> <<>>]

\* What a download of the tag's source archive can leave in Downloads.
Downloadable(tag) ==
    { Archive(tag, TRUE, TRUE), Archive(tag, TRUE, FALSE), Archive(tag, FALSE, FALSE) }

\* The extracted folder under install_dir.
Staged(name, src, whole) == [name |-> name, src |-> src, whole |-> whole]
NoStaging == Staged("none", NoTree, FALSE)

\* ---------------------------------------------------------------- inputs
TagInputs == {"v1.0", "V1.0", "v2.0", "undefined", "v9.9.9"}
EnvInputs == {"rojo", "Rojo", "R", "RS", "Roblox Studio", "robloxstudio", "vscode", ""}
ConfirmInputs == {"y", "Y", "", "n", "yes"}
ActionInputs == {"install", "i", "update", "u", "Install"}

\* Mutant of Lower: the text is left as typed.
LowerAsTyped(s) == s

\* str.lower() on the inputs above.
Lower(s) ==
    CASE s = "R" -> "r"
      [] s = "Rojo" -> "rojo"
      [] s = "RS" -> "rs"
      [] s = "Roblox Studio" -> "roblox studio"
      [] s = "Y" -> "y"
      [] s = "V1.0" -> "v1.0"
      [] s = "Install" -> "install"
      [] OTHER -> s

\* install.py:13-14
ROJO_ENV == {"rojo", "r"}
ROBLOX_STUDIO_ENV == {"roblox studio", "robloxstudio", "rs"}
NoEnvironment == "<None>"

\* shared.py:59-83 release_validation_verification: False when no entry
\* matches.
NotFound == [found |-> FALSE]

RECURSIVE FirstMatchFrom(_, _, _)
FirstMatchFrom(c, tag, i) ==
    IF i > Len(c) THEN NotFound
    ELSE IF c[i].val.tag = tag THEN c[i].val
    ELSE FirstMatchFrom(c, tag, i + 1)

\* Mutant of release_validation_verification: tags compared without case.
RECURSIVE FirstMatchNoCaseFrom(_, _, _)
FirstMatchNoCaseFrom(c, tag, i) ==
    IF i > Len(c) THEN NotFound
    ELSE IF Lower(c[i].val.tag) = Lower(tag) THEN c[i].val
    ELSE FirstMatchNoCaseFrom(c, tag, i + 1)

release_validation_no_case(c, tag) == FirstMatchNoCaseFrom(c, tag, 1)

release_validation_verification(c, tag) == FirstMatchFrom(c, tag, 1)

\* ------------------------------------------------------------------ state
VARIABLES
    fileExists,   \* whether cache/data.json exists
    fileText,     \* its text (tokens)
    mtime,        \* its st_mtime, in ticks
    now,          \* the clock, in ticks
    rbxpi,        \* <proj>/RbxPI
    staging,      \* the extracted folder in <proj>
    archive,      \* the archive in the downloads directory
    asset,        \* the .rbxm asset in the downloads directory
    pc,           \* the position of the run
    wf,           \* "install" or "update"
    exitCode,     \* process status: -1 while running
    log,          \* the I/O operations of the run, in order
    content,      \* get_release: content
    days,         \* get_release: days_since_modification
    response,     \* what the API answered in this run
    fetches,      \* requests sent to the release-list endpoint
    warned,       \* show(): the staleness warning was printed
    shown,        \* show(): the release table was printed
    tagInput,     \* select_release: user_input
    envInput,     \* select_environment: what the user typed
    pathInput,    \* ask_install_directory / select_install_dir: what the user typed
    answer,       \* the confirmation prompt: what Shell.input returned
    release,      \* Install.release / Update.new_release
    environment,  \* Install.environment
    install_dir,  \* Install.install_dir / Update.install_dir
    old_release,  \* Update.old_release
    start,        \* whether the cache file existed, and RbxPI, at start
    pending,      \* Database.write: the part of the dump not yet in the file
    stored,       \* the collection of the latest fetch handed to Database.write
    observed      \* what a second instance's Database.get last returned

cacheVars == <<fileExists, fileText, mtime, now>>
fsVars == <<rbxpi, staging, archive, asset>>
syncVars == <<content, days, response, fetches, warned, shown>>
choiceVars == <<wf, tagInput, envInput, answer, pathInput, release, environment, install_dir,
               old_release>>
raceVars == <<pending, stored, observed>>
vars == <<fileExists, fileText, mtime, now, rbxpi, staging, archive, asset,
          pc, wf, exitCode, log, content, days, response, fetches, warned,
          shown, tagInput, envInput, answer, pathInput, release, environment, install_dir,
          old_release, start, pending, stored, observed>>

NowTick == (MaxDays + 1) * TicksPerDay - 1

\* Collections an earlier run can have persisted.
StoredDicts == { ParseBody(JsonArray(s)) : s \in SeqsUpTo(GoodElements, MaxStored) }

\* Texts of data.json an earlier run can have left: a complete dump, or a
\* prefix of one when the run died while writing.
Prefixes(text) == { SubSeq(text, 1, n) : n \in 0..Len(text) }
StoredTexts == UNION { Prefixes(JsonDump(d)) : d \in StoredDicts }

InitRun ==
    /\ pc = "start"
    /\ wf = "none"
    /\ exitCode = -1
    /\ log = <<>>
    /\ content = EmptyDict
    /\ days = -1
    /\ response = NoResponse
    /\ fetches = 0
    /\ warned = FALSE
    /\ shown = FALSE
    /\ tagInput = ""
    /\ envInput = ""
    /\ pathInput = ""
    /\ answer = ""
    /\ release = NotFound
    /\ environment = NoEnvironment
    /\ install_dir = ""
    /\ old_release = <<>>

NoObservation == [value |-> EmptyDict, expect |-> EmptyDict, at |-> "none", seen |-> 0]

InitRace ==
    /\ pending = <<>>
    /\ stored = EmptyDict
    /\ observed = NoObservation

Init ==
    /\ now = NowTick
    /\ \/ fileExists = FALSE /\ fileText = <<>> /\ mtime = now
       \/ fileExists = TRUE /\ fileText \in StoredTexts /\ mtime \in 0..now
    /\ rbxpi \in {NoTree} \cup { Tree("old", m, TRUE) : m \in OldMarkers }
    /\ staging = NoStaging
    /\ archive = NoArchive
    /\ asset = ""
    /\ InitRun
    /\ start = [fileExists |-> fileExists, rbxpi |-> rbxpi]
    /\ InitRace

\* ------------------------------------------------------------ termination
\* exit(1), and exit("...") which also ends with status 1.
Fatal == pc' = "exited" /\ exitCode' = 1
\* The workflow returns and the interpreter ends normally.
Finish == pc' = "done" /\ exitCode' = 0

Logged(ops) == log' = log \o ops

\* ------------------------------------------------ core/__init__.py: prompt
\* core/__init__.py:31-38 ask_actions.
AskActions ==
    /\ pc = "start"
    /\ \E a \in ActionInputs :
         \/ /\ a \in {"install", "i"}
            /\ wf' = "install"
            /\ pc' = "gr_exist"
            /\ UNCHANGED exitCode
         \/ /\ a \in {"update", "u"}
            /\ wf' = "update"
            /\ pc' = "u_dir"
            /\ UNCHANGED exitCode
         \/ /\ a \notin {"install", "i", "update", "u"}
            /\ Finish
            /\ UNCHANGED wf
    /\ UNCHANGED <<cacheVars, fsVars, syncVars, log, start, raceVars>>
    /\ UNCHANGED <<tagInput, envInput, answer, pathInput, release, environment, install_dir,
                   old_release>>

\* ------------------------------------------------ shared.py: get_release
\* shared.py:37-39 with database.py:27-46 Database.create.
GetReleaseCreate ==
    /\ pc = "gr_exist"
    /\ IF ~fileExists
       THEN /\ fileExists' = TRUE
            /\ fileText' = JsonDump(EmptyDict)
            /\ mtime' = now
            /\ Logged(<<"create">>)
       ELSE UNCHANGED <<fileExists, fileText, mtime, log>>
    /\ pc' = "gr_read"
    /\ UNCHANGED <<now, fsVars, syncVars, choiceVars, exitCode, start, raceVars>>

\* shared.py:41-42.
GetReleaseRead ==
    /\ pc = "gr_read"
    /\ content' = DatabaseGet(fileExists, fileText)
    /\ days' = DaysSinceModification(now, mtime)
    /\ pc' = "gr_sync"
    /\ Logged(<<IF content' = EmptyDict THEN "get_empty" ELSE "get">>)
    /\ UNCHANGED <<cacheVars, fsVars, choiceVars, exitCode, start, raceVars>>
    /\ UNCHANGED <<response, fetches, warned, shown>>

\* Mutant of DatabaseWrite: the collection is added to what the file holds.
DatabaseWriteMerged(old, data) == JsonDump(DatabaseGet(TRUE, old) \o data)

\* database.py:81-82 open(DATA_FILE, "w") empties the file, json.dump then
\* writes the collection: the text of the file after a complete write.
DatabaseWrite(old, data) == JsonDump(data)

\* shared.py:44-51 with database.py:146-191 Database.fetch_releases and
\* database.py:64-90 Database.write. A write that raises leaves a prefix of
\* the dump behind and ends the run with a traceback.
GetReleaseFetch ==
    /\ pc = "gr_sync"
    /\ NeedsFetch(content, days)
    /\ \E resp \in Responses :
         /\ response' = resp
         /\ fetches' = fetches + 1
         /\ IF FetchSucceeds(resp)
            THEN \E written \in Prefixes(DatabaseWrite(fileText, ParseBody(resp.body))) :
                   /\ fileText' = written
                   /\ mtime' = now
                   /\ IF written = DatabaseWrite(fileText, ParseBody(resp.body))
                      THEN /\ content' = DatabaseGet(fileExists, written)
                           /\ pc' = "gr_show"
                           /\ UNCHANGED exitCode
                           /\ Logged(<<"fetch", "write", "get">>)
                      ELSE /\ Fatal
                           /\ UNCHANGED content
                           /\ Logged(<<"fetch", "write">>)
            ELSE /\ Fatal
                 /\ Logged(<<"fetch">>)
                 /\ UNCHANGED <<fileText, mtime, content>>
    /\ UNCHANGED <<fileExists, now, fsVars, choiceVars, start, raceVars>>
    /\ UNCHANGED <<days, warned, shown>>

\* Mutant of GetReleaseUseCache: a cache hit touches the file.
GetReleaseUseCacheTouches ==
    /\ pc = "gr_sync"
    /\ ~NeedsFetch(content, days)
    /\ pc' = "gr_show"
    /\ mtime' = now
    /\ UNCHANGED <<fileExists, fileText, now, fsVars, syncVars, choiceVars, exitCode, log,
                   start, raceVars>>

\* shared.py:52-53.
GetReleaseUseCache ==
    /\ pc = "gr_sync"
    /\ ~NeedsFetch(content, days)
    /\ pc' = "gr_show"
    /\ UNCHANGED <<cacheVars, fsVars, syncVars, choiceVars, exitCode, log, start, raceVars>>

\* shared.py:55-56 with database.py:194-228 Database.show, and the return:
\* the local days_since_modification goes out of scope.
GetReleaseShow ==
    /\ pc = "gr_show"
    /\ LET releases == DatabaseGet(fileExists, fileText)
           d == DaysSinceModification(now, mtime)
       IN /\ shown' = (releases # EmptyDict)
          /\ warned' = ShowWarns(releases, d)
    /\ pc' = IF wf = "install" THEN "i_tag" ELSE "u_tag"
    /\ days' = -1
    /\ Logged(<<"show">>)
    /\ UNCHANGED <<cacheVars, fsVars, choiceVars, exitCode, start, raceVars>>
    /\ UNCHANGED <<content, response, fetches>>

\* ------------------------------------------------------ shell.py: prompts
\* The positions at which the run waits in Shell.input.
PromptPcs == {"i_tag", "i_env", "i_dir", "i_confirm", "u_dir", "u_tag", "u_confirm"}

\* Mutant of Interrupt: the exit undoes the refresh of the cache file.
InterruptRollsBack ==
    /\ pc \in PromptPcs
    /\ Fatal
    /\ Logged(<<"interrupt">>)
    /\ fileText' = <<Open, Close>>
    /\ UNCHANGED <<fileExists, mtime, now, fsVars, syncVars, choiceVars, start, raceVars>>

\* shell.py:9-12 KeyboardInterrupt in Shell.input: exit("Closing ...").
Interrupt ==
    /\ pc \in PromptPcs
    /\ Fatal
    /\ Logged(<<"interrupt">>)
    /\ UNCHANGED <<cacheVars, fsVars, syncVars, choiceVars, start, raceVars>>

\* ------------------------------------------------- shared.py: file helpers
\* The Version.txt text the archive of a tag carries.
ArchiveMarker(tag) ==
    CASE tag = "v1.0" -> <<"1", ".", "0", ".", "0">>
      [] tag = "v2.0" -> <<"2", ".", "0", ".", "0">>
      [] OTHER -> <<Missing>>

\* shared.py:138 folder_name = zip_ref.namelist()[0].split('/')[0]
FolderName(arch) == arch.names[1][1]

\* shared.py:135-141 extract_file: the folder extractall leaves under the
\* destination; an I/O error part-way leaves part of it.
Extracted(arch, complete) ==
    Staged(FolderName(arch),
           IF arch.has_src THEN Tree(arch.tag, ArchiveMarker(arch.tag), complete) ELSE NoTree,
           complete)

\* Mutant of Copied: Version.txt is not copied.
CopiedWithoutMarker(source, complete) == Tree(source.origin, <<Missing>>, complete)

\* shutil.copytree(source, destination): the destination it leaves.
Copied(source, complete) ==
    IF complete THEN source ELSE Tree(source.origin, source.marker, FALSE)

\* install.py:176 next((a for a in assets if a.endswith(".rbxm")), None)
EndsWithRbxm(a) == a \in {"RbxPI.rbxm", "Alt.rbxm"}

RECURSIVE FirstRbxmFrom(_, _)
FirstRbxmFrom(assets, i) ==
    IF i > Len(assets) THEN ""
    ELSE IF EndsWithRbxm(assets[i]) THEN assets[i]
    ELSE FirstRbxmFrom(assets, i + 1)

\* Mutant of FirstRbxm: the last matching asset.
LastRbxm(assets) ==
    LET hits == { i \in 1..Len(assets) : EndsWithRbxm(assets[i]) }
    IN IF hits = {} THEN "" ELSE assets[CHOOSE i \in hits : \A j \in hits : j <= i]

FirstRbxm(assets) == FirstRbxmFrom(assets, 1)

\* Mutant of Accepts: every answer that starts with a y accepts.
AcceptsYes(a) == Lower(a) \in {"y", "", "yes"}

\* install.py:130 / update.py:35  Shell.input("[Y/n]").lower() in ["y", ""]
Accepts(a) == Lower(a) \in {"y", ""}

\* ------------------------------------------------- install.py: the workflow
\* Mutant of InstallSelectRelease: an invalid tag is asked for again.
InstallSelectReleaseRetry ==
    /\ pc = "i_tag"
    /\ \E input \in TagInputs :
         /\ tagInput' = input
         /\ release' = release_validation_verification(content, input)
         /\ pc' = IF release' = NotFound THEN "i_tag" ELSE "i_env"
    /\ Logged(<<"prompt_tag">>)
    /\ UNCHANGED <<cacheVars, fsVars, syncVars, exitCode, start, raceVars>>
    /\ UNCHANGED <<wf, envInput, answer, pathInput, environment, install_dir, old_release>>

\* install.py:36-57 select_release, after get_release returned.
InstallSelectRelease ==
    /\ pc = "i_tag"
    /\ \E input \in TagInputs :
         /\ tagInput' = input
         /\ release' = release_validation_verification(content, input)
         /\ IF release' = NotFound
            THEN Fatal
            ELSE pc' = "i_env" /\ UNCHANGED exitCode
    /\ Logged(<<"prompt_tag">>)
    /\ UNCHANGED <<cacheVars, fsVars, syncVars, start, raceVars>>
    /\ UNCHANGED <<wf, envInput, answer, pathInput, environment, install_dir, old_release>>

\* install.py:59-76 select_environment.
InstallSelectEnvironment ==
    /\ pc = "i_env"
    /\ \E input \in EnvInputs :
         LET choice == Lower(input)
         IN /\ envInput' = input
            /\ environment' = IF choice \in ROJO_ENV \/ choice \in ROBLOX_STUDIO_ENV
                              THEN choice ELSE environment
    /\ pc' = "i_install"
    /\ Logged(<<"prompt_env">>)
    /\ UNCHANGED <<cacheVars, fsVars, syncVars, exitCode, start, raceVars>>
    /\ UNCHANGED <<wf, tagInput, pathInput, answer, release, install_dir, old_release>>

\* Mutant of InstallRoute: an unset environment takes the Rojo path.
InstallRouteDefaultsToRojo ==
    /\ pc = "i_install"
    /\ pc' = IF environment \in ROBLOX_STUDIO_ENV THEN "i_studio" ELSE "i_dir"
    /\ UNCHANGED <<cacheVars, fsVars, syncVars, choiceVars, exitCode, log, start, raceVars>>

\* install.py:78-96 install.
InstallRoute ==
    /\ pc = "i_install"
    /\ IF environment \in ROBLOX_STUDIO_ENV
       THEN pc' = "i_studio" /\ UNCHANGED exitCode
       ELSE IF environment \in ROJO_ENV
       THEN pc' = "i_dir" /\ UNCHANGED exitCode
       ELSE Fatal
    /\ UNCHANGED <<cacheVars, fsVars, syncVars, choiceVars, log, start, raceVars>>

\* install.py:98-114 install_roblox_studio with install.py:161-182
\* get_rbxm_download_url and install.py:205-226 download.
InstallRobloxStudio ==
    /\ pc = "i_studio"
    /\ LET found == FirstRbxm(release.assets)
       IN IF found = ""
          THEN Fatal /\ UNCHANGED <<asset, log>>
          ELSE \E downloaded \in BOOLEAN :
                 /\ Logged(<<"download">>)
                 /\ IF downloaded
                    THEN asset' = found /\ Finish
                    ELSE UNCHANGED asset /\ Fatal
    /\ UNCHANGED <<cacheVars, rbxpi, staging, archive, syncVars, choiceVars, start, raceVars>>

\* install.py:184-203 ask_install_directory.
InstallAskDirectory ==
    /\ pc = "i_dir"
    /\ \E path \in PathInputs :
         /\ pathInput' = path
         /\ IF IsDir(path)
            THEN install_dir' = path /\ pc' = "i_confirm" /\ UNCHANGED exitCode
            ELSE UNCHANGED install_dir /\ Fatal
    /\ Logged(<<"prompt_dir">>)
    /\ UNCHANGED <<cacheVars, fsVars, syncVars, start, raceVars>>
    /\ UNCHANGED <<wf, tagInput, envInput, answer, release, environment, old_release>>

\* install.py:129-130 the confirmation prompt of install_rojo: Shell.input
\* returns what the user typed.
InstallConfirm ==
    /\ pc = "i_confirm"
    /\ answer' \in ConfirmInputs
    /\ pc' = "i_answer"
    /\ Logged(<<"prompt_confirm">>)
    /\ UNCHANGED <<cacheVars, fsVars, syncVars, exitCode, start, raceVars>>
    /\ UNCHANGED <<wf, tagInput, envInput, pathInput, release, environment, install_dir,
                   old_release>>

\* install.py:130 .lower() in ["y", ""]: the test of the answer, which is
\* not kept; a refusal ends install_rojo and the run.
InstallAnswer ==
    /\ pc = "i_answer"
    /\ IF Accepts(answer)
       THEN pc' = "i_download" /\ UNCHANGED exitCode /\ Logged(<<"accept">>)
       ELSE Finish /\ Logged(<<"decline">>)
    /\ answer' = ""
    /\ UNCHANGED <<cacheVars, fsVars, syncVars, start, raceVars>>
    /\ UNCHANGED <<wf, tagInput, envInput, pathInput, release, environment, install_dir,
                   old_release>>

\* install.py:131-135 with install.py:205-226 download.
InstallDownload ==
    /\ pc = "i_download"
    /\ \/ \E a \in Downloadable(release.tag) :
            archive' = a /\ pc' = "i_extract" /\ UNCHANGED exitCode
       \/ UNCHANGED archive /\ Fatal
    /\ Logged(<<"download">>)
    /\ UNCHANGED <<cacheVars, rbxpi, staging, asset, syncVars, choiceVars, start, raceVars>>

\* install.py:137-139 extract_file into install_dir.
InstallExtract ==
    /\ pc = "i_extract"
    /\ IF archive.zip
       THEN \E complete \in BOOLEAN :
              /\ staging' = Extracted(archive, complete)
              /\ IF complete THEN pc' = "i_guard" /\ UNCHANGED exitCode ELSE Fatal
       ELSE UNCHANGED staging /\ Fatal
    /\ Logged(<<"extract">>)
    /\ UNCHANGED <<cacheVars, rbxpi, archive, asset, syncVars, choiceVars, start, raceVars>>

\* Mutant of InstallGuard: the destination is not checked.
InstallGuardMissing ==
    /\ pc = "i_guard"
    /\ pc' = "i_copy"
    /\ Logged(<<"guard">>)
    /\ UNCHANGED <<cacheVars, fsVars, syncVars, choiceVars, exitCode, start, raceVars>>

\* Mutant of InstallGuard: the abort removes the extracted folder.
InstallGuardCleans ==
    /\ pc = "i_guard"
    /\ IF TreeExists(rbxpi)
       THEN Fatal /\ staging' = NoStaging
       ELSE pc' = "i_copy" /\ UNCHANGED <<exitCode, staging>>
    /\ Logged(<<"guard">>)
    /\ UNCHANGED <<cacheVars, rbxpi, archive, asset, syncVars, choiceVars, start, raceVars>>

\* install.py:141-146 the destination check.
InstallGuard ==
    /\ pc = "i_guard"
    /\ IF TreeExists(rbxpi)
       THEN Fatal
       ELSE pc' = "i_copy" /\ UNCHANGED exitCode
    /\ Logged(<<"guard">>)
    /\ UNCHANGED <<cacheVars, fsVars, syncVars, choiceVars, start, raceVars>>

\* install.py:148-149 shutil.copytree(source, destination).
InstallCopy ==
    /\ pc = "i_copy"
    /\ IF TreeExists(staging.src)
       THEN \E complete \in BOOLEAN :
              /\ rbxpi' = Copied(staging.src, complete)
              /\ IF complete THEN pc' = "i_cleanup" /\ UNCHANGED exitCode ELSE Fatal
       ELSE UNCHANGED rbxpi /\ Fatal
    /\ Logged(<<"copytree">>)
    /\ UNCHANGED <<cacheVars, staging, archive, asset, syncVars, choiceVars, start, raceVars>>

\* install.py:151-155 shutil.rmtree of the extracted folder.
InstallCleanup ==
    /\ pc = "i_cleanup"
    /\ \E complete \in BOOLEAN :
         IF complete
         THEN staging' = NoStaging /\ Finish
         ELSE staging' = Staged(staging.name, staging.src, FALSE) /\ Fatal
    /\ Logged(<<"rmtree_staging">>)
    /\ UNCHANGED <<cacheVars, rbxpi, archive, asset, syncVars, choiceVars, start, raceVars>>

\* --------------------------------------------------- update.py: the workflow
\* Mutant of UpdateSelectInstallDir: the RbxPI folder is not looked for.
UpdateSelectInstallDirAnyDir ==
    /\ pc = "u_dir"
    /\ \E path \in PathInputs :
         /\ pathInput' = path
         /\ IF ~IsDir(path)
            THEN UNCHANGED install_dir /\ Fatal
            ELSE install_dir' = path /\ pc' = "u_old" /\ UNCHANGED exitCode
    /\ Logged(<<"prompt_dir">>)
    /\ UNCHANGED <<cacheVars, fsVars, syncVars, start, raceVars>>
    /\ UNCHANGED <<wf, tagInput, envInput, answer, release, environment, old_release>>

\* update.py:69-90 select_install_dir.
UpdateSelectInstallDir ==
    /\ pc = "u_dir"
    /\ \E path \in PathInputs :
         /\ pathInput' = path
         /\ IF ~IsDir(path) \/ ~TreeExists(rbxpi)
            THEN UNCHANGED install_dir /\ Fatal
            ELSE install_dir' = path /\ pc' = "u_old" /\ UNCHANGED exitCode
    /\ Logged(<<"prompt_dir">>)
    /\ UNCHANGED <<cacheVars, fsVars, syncVars, start, raceVars>>
    /\ UNCHANGED <<wf, tagInput, envInput, answer, release, environment, old_release>>

\* file.read(5): at most the first five characters.
ReadChars(text, n) == SubSeq(text, 1, IF Len(text) < n THEN Len(text) ELSE n)

\* Mutant of OldRelease: the file is read without the isfile test.
OldReleaseUntested(tree) == <<"v">> \o ReadChars(tree.marker, 5)

\* update.py:92-113 get_old_release.
OldRelease(tree) ==
    IF tree.marker = <<Missing>> THEN Unknown ELSE <<"v">> \o ReadChars(tree.marker, 5)

UpdateGetOldRelease ==
    /\ pc = "u_old"
    /\ old_release' = OldRelease(rbxpi)
    /\ pc' = "gr_exist"
    /\ UNCHANGED <<cacheVars, fsVars, syncVars, exitCode, log, start, raceVars>>
    /\ UNCHANGED <<wf, tagInput, envInput, answer, pathInput, release, environment, install_dir>>

\* Mutant of UpdateSelectRelease: the result of the validation is not tested.
UpdateSelectReleaseUnchecked ==
    /\ pc = "u_tag"
    /\ \E input \in TagInputs :
         /\ tagInput' = input
         /\ release' = release_validation_verification(content, input)
    /\ pc' = "u_confirm"
    /\ Logged(<<"prompt_tag">>)
    /\ UNCHANGED <<cacheVars, fsVars, syncVars, exitCode, start, raceVars>>
    /\ UNCHANGED <<wf, envInput, answer, pathInput, environment, install_dir, old_release>>

\* Mutant of UpdateSelectRelease: an unknown tag is asked for again.
UpdateSelectReleaseAsksAgain ==
    /\ pc = "u_tag"
    /\ \E input \in TagInputs :
         /\ tagInput' = input
         /\ release' = release_validation_verification(content, input)
         /\ IF release' = NotFound
            THEN pc' = "u_tag" /\ UNCHANGED log
            ELSE pc' = "u_confirm" /\ Logged(<<"prompt_tag">>)
    /\ UNCHANGED <<cacheVars, fsVars, syncVars, exitCode, start, raceVars>>
    /\ UNCHANGED <<wf, envInput, answer, pathInput, environment, install_dir, old_release>>

\* update.py:115-140 select_release, after get_release returned.
UpdateSelectRelease ==
    /\ pc = "u_tag"
    /\ \E input \in TagInputs :
         /\ tagInput' = input
         /\ release' = release_validation_verification(content, input)
         /\ IF release' = NotFound
            THEN Fatal
            ELSE pc' = "u_confirm" /\ UNCHANGED exitCode
    /\ Logged(<<"prompt_tag">>)
    /\ UNCHANGED <<cacheVars, fsVars, syncVars, start, raceVars>>
    /\ UNCHANGED <<wf, envInput, answer, pathInput, environment, install_dir, old_release>>

\* update.py:34-35 the confirmation prompt: Shell.input returns what the
\* user typed.
UpdateConfirm ==
    /\ pc = "u_confirm"
    /\ answer' \in ConfirmInputs
    /\ pc' = "u_answer"
    /\ Logged(<<"prompt_confirm">>)
    /\ UNCHANGED <<cacheVars, fsVars, syncVars, exitCode, start, raceVars>>
    /\ UNCHANGED <<wf, tagInput, envInput, pathInput, release, environment, install_dir,
                   old_release>>

\* update.py:35 .lower() in ["y", ""]: the test of the answer, which is not
\* kept; a refusal ends __init__ and the run.
UpdateAnswer ==
    /\ pc = "u_answer"
    /\ IF Accepts(answer)
       THEN pc' = "u_download" /\ UNCHANGED exitCode /\ Logged(<<"accept">>)
       ELSE Finish /\ Logged(<<"decline">>)
    /\ answer' = ""
    /\ UNCHANGED <<cacheVars, fsVars, syncVars, start, raceVars>>
    /\ UNCHANGED <<wf, tagInput, envInput, pathInput, release, environment, install_dir,
                   old_release>>

\* Mutant of UpdateDownload: the old installation is not removed before the
\* archive is extracted.
UpdateDownloadThenExtract ==
    /\ pc = "u_download"
    /\ \/ \E a \in Downloadable(release.tag) :
            archive' = a /\ pc' = "u_extract" /\ UNCHANGED exitCode
       \/ UNCHANGED archive /\ Fatal
    /\ Logged(<<"download">>)
    /\ UNCHANGED <<cacheVars, rbxpi, staging, asset, syncVars, choiceVars, start, raceVars>>

\* Mutant of UpdateDownload: a failed download does not end the run.
UpdateDownloadUnchecked ==
    /\ pc = "u_download"
    /\ \/ \E a \in Downloadable(release.tag) : archive' = a
       \/ UNCHANGED archive
    /\ pc' = "u_remove"
    /\ Logged(<<"download">>)
    /\ UNCHANGED <<cacheVars, rbxpi, staging, asset, syncVars, choiceVars, exitCode, start,
                   raceVars>>

\* update.py:36-40 with update.py:142-163 download.
UpdateDownload ==
    /\ pc = "u_download"
    /\ \/ \E a \in Downloadable(release.tag) :
            archive' = a /\ pc' = "u_remove" /\ UNCHANGED exitCode
       \/ UNCHANGED archive /\ Fatal
    /\ Logged(<<"download">>)
    /\ UNCHANGED <<cacheVars, rbxpi, staging, asset, syncVars, choiceVars, start, raceVars>>

\* Mutant of Removed: the tree is kept.
RemovedKeeps(tree, complete) == {tree}

\* shutil.rmtree(path): the tree it leaves; when it raises, any part of the
\* tree may be left.
Removed(tree, complete) ==
    IF complete THEN {NoTree} ELSE {tree, Tree(tree.origin, <<Missing>>, FALSE)}

\* update.py:42-44 shutil.rmtree of <install_dir>/RbxPI.
UpdateRemoveOld ==
    /\ pc = "u_remove"
    /\ \E complete \in BOOLEAN :
         /\ rbxpi' \in Removed(rbxpi, complete)
         /\ IF complete THEN pc' = "u_extract" /\ UNCHANGED exitCode ELSE Fatal
    /\ Logged(<<"rmtree_rbxpi">>)
    /\ UNCHANGED <<cacheVars, staging, archive, asset, syncVars, choiceVars, start, raceVars>>

\* update.py:46-47 extract_file into install_dir.
UpdateExtract ==
    /\ pc = "u_extract"
    /\ IF archive.zip
       THEN \E complete \in BOOLEAN :
              /\ staging' = Extracted(archive, complete)
              /\ IF complete THEN pc' = "u_guard" /\ UNCHANGED exitCode ELSE Fatal
       ELSE UNCHANGED staging /\ Fatal
    /\ Logged(<<"extract">>)
    /\ UNCHANGED <<cacheVars, rbxpi, archive, asset, syncVars, choiceVars, start, raceVars>>

\* update.py:49-54 the destination check.
UpdateGuard ==
    /\ pc = "u_guard"
    /\ IF TreeExists(rbxpi)
       THEN Fatal
       ELSE pc' = "u_copy" /\ UNCHANGED exitCode
    /\ Logged(<<"guard">>)
    /\ UNCHANGED <<cacheVars, fsVars, syncVars, choiceVars, start, raceVars>>

\* update.py:56-57 shutil.copytree(source, destination).
UpdateCopy ==
    /\ pc = "u_copy"
    /\ IF TreeExists(staging.src)
       THEN \E complete \in BOOLEAN :
              /\ rbxpi' = Copied(staging.src, complete)
              /\ IF complete THEN pc' = "u_cleanup" /\ UNCHANGED exitCode ELSE Fatal
       ELSE UNCHANGED rbxpi /\ Fatal
    /\ Logged(<<"copytree">>)
    /\ UNCHANGED <<cacheVars, staging, archive, asset, syncVars, choiceVars, start, raceVars>>

\* update.py:59-63 shutil.rmtree of the extracted folder.
UpdateCleanup ==
    /\ pc = "u_cleanup"
    /\ \E complete \in BOOLEAN :
         IF complete
         THEN staging' = NoStaging /\ Finish
         ELSE staging' = Staged(staging.name, staging.src, FALSE) /\ Fatal
    /\ Logged(<<"rmtree_staging">>)
    /\ UNCHANGED <<cacheVars, rbxpi, archive, asset, syncVars, choiceVars, start, raceVars>>

\* ------------------------------------------------------- the specification
Next ==
    \/ AskActions
    \/ Interrupt
    \/ GetReleaseCreate
    \/ GetReleaseRead
    \/ GetReleaseFetch
    \/ GetReleaseUseCache
    \/ GetReleaseShow
    \/ InstallSelectRelease
    \/ InstallSelectEnvironment
    \/ InstallRoute
    \/ InstallRobloxStudio
    \/ InstallAskDirectory
    \/ InstallConfirm
    \/ InstallAnswer
    \/ InstallDownload
    \/ InstallExtract
    \/ InstallGuard
    \/ InstallCopy
    \/ InstallCleanup
    \/ UpdateSelectInstallDir
    \/ UpdateGetOldRelease
    \/ UpdateSelectRelease
    \/ UpdateConfirm
    \/ UpdateAnswer
    \/ UpdateDownload
    \/ UpdateRemoveOld
    \/ UpdateExtract
    \/ UpdateGuard
    \/ UpdateCopy
    \/ UpdateCleanup

Spec == Init /\ [][Next]_vars

\* The run under the scheduling of one synchronous process: a step that can
\* be taken is taken. At a prompt the step is the line typed or the
\* interrupt, at a network call (timeout=10, timeout=15) its return or its
\* failure; every other step is the next statement of the program.
\* The modification times that decide a branch of get_release and of show:
\* written now, WarnDays old, RefreshDays old.
LiveTimes == {NowTick, NowTick - WarnDays * TicksPerDay, NowTick - RefreshDays * TicksPerDay}

LiveInit == Init /\ mtime \in LiveTimes

SpecLive == LiveInit /\ [][Next]_vars /\ WF_vars(Next)

\* ------------------------------------------- a write seen by a second reader
\* One instance refreshes the cache (fetch_releases, then the re-read of
\* get_release) while a second instance calls Database.get at any moment.
\* Database.write opens the file with mode "w", which truncates it, and
\* json.dump then writes the text piece by piece; Database.get reads the
\* whole file in one read.
runVars == <<wf, exitCode, log, days, fetches, warned, shown, tagInput, envInput, answer,
             pathInput, release, environment, install_dir, old_release, start>>

CacheInit ==
    /\ now = NowTick
    /\ mtime = 0
    /\ fileExists = TRUE
    /\ \E d \in StoredDicts :
         /\ fileText \in Prefixes(JsonDump(d))
         /\ stored = JsonLoad(JsonDump(d))
    /\ pending = <<>>
    /\ observed = NoObservation
    /\ rbxpi = NoTree
    /\ staging = NoStaging
    /\ archive = NoArchive
    /\ asset = ""
    /\ InitRun
    /\ start = [fileExists |-> TRUE, rbxpi |-> NoTree]

\* database.py:162-189 the request and the parsing of fetch_releases.
CacheFetch ==
    /\ pc = "start"
    /\ \E resp \in Responses :
         /\ response' = resp
         /\ IF FetchSucceeds(resp)
            THEN pending' = JsonDump(ParseBody(resp.body)) /\ pc' = "w_open"
            ELSE UNCHANGED pending /\ pc' = "exited"
    /\ UNCHANGED <<cacheVars, fsVars, runVars, content, stored, observed>>

\* database.py:81 open(DATA_FILE, "w", encoding="utf-8").
CacheOpen ==
    /\ pc = "w_open"
    /\ fileText' = <<>>
    /\ mtime' = now
    /\ stored' = JsonLoad(pending)
    /\ pc' = "w_dump"
    /\ UNCHANGED <<fileExists, now, fsVars, runVars, content, response, pending, observed>>

\* database.py:82 json.dump: the next piece of the text reaches the file.
CacheDump ==
    /\ pc = "w_dump"
    /\ pending # <<>>
    /\ \E n \in 1..Len(pending) :
         /\ fileText' = fileText \o SubSeq(pending, 1, n)
         /\ pending' = SubSeq(pending, n + 1, Len(pending))
    /\ UNCHANGED <<fileExists, mtime, now, fsVars, runVars, content, response, stored,
                   observed, pc>>

\* database.py:86-88 the write raises: the run ends, the file stays as it is.
CacheDumpRaises ==
    /\ pc = "w_dump"
    /\ pending # <<>>
    /\ pc' = "exited"
    /\ UNCHANGED <<cacheVars, fsVars, runVars, content, response, raceVars>>

\* database.py:81-84 the with block ends, then shared.py:51 content =
\* Database.get().
CacheReread ==
    /\ pc = "w_dump"
    /\ pending = <<>>
    /\ content' = DatabaseGet(fileExists, fileText)
    /\ pc' = "done"
    /\ UNCHANGED <<cacheVars, fsVars, runVars, response, raceVars>>

\* database.py:93-117 Database.get in the second instance.
OtherInstanceGet ==
    /\ observed' = [value |-> DatabaseGet(fileExists, fileText), expect |-> stored,
                    at |-> pc, seen |-> Len(fileText)]
    /\ UNCHANGED <<cacheVars, fsVars, runVars, content, response, pending, stored, pc>>

CacheNext ==
    \/ CacheFetch
    \/ CacheOpen
    \/ CacheDump
    \/ CacheDumpRaises
    \/ CacheReread
    \/ OtherInstanceGet

SpecCache == CacheInit /\ [][CacheNext]_vars

\* ---------------------------------- release_validation_verification alone
\* The str-keyed dicts Database.get can return, up to MaxValidate entries.
ValidateElements ==
    GoodElements \cup { ApiObject("V1.0", "Upper", TRUE, <<>>),
                        ApiObject("v1.0", "Dup", TRUE, <<Asset(Missing)>>) }

ValidateDicts ==
    { JsonLoad(JsonDump(ParseBody(JsonArray(s)))) :
        s \in SeqsUpTo(ValidateElements, MaxValidate) }

ValidateInit ==
    /\ now = NowTick
    /\ mtime = now
    /\ fileExists = FALSE
    /\ fileText = <<>>
    /\ rbxpi = NoTree
    /\ staging = NoStaging
    /\ archive = NoArchive
    /\ asset = ""
    /\ pc = "validate"
    /\ wf = "none"
    /\ exitCode = -1
    /\ log = <<>>
    /\ content \in ValidateDicts
    /\ days = -1
    /\ response = NoResponse
    /\ fetches = 0
    /\ warned = FALSE
    /\ shown = FALSE
    /\ tagInput \in TagInputs
    /\ envInput = ""
    /\ pathInput = ""
    /\ answer = ""
    /\ release = NotFound
    /\ environment = NoEnvironment
    /\ install_dir = ""
    /\ old_release = <<>>
    /\ start = [fileExists |-> FALSE, rbxpi |-> NoTree]
    /\ InitRace

\* shared.py:59-83 one call of release_validation_verification.
Validate ==
    /\ pc = "validate"
    /\ release' = release_validation_verification(content, tagInput)
    /\ pc' = "validated"
    /\ UNCHANGED <<cacheVars, fsVars, syncVars, exitCode, log, start, raceVars>>
    /\ UNCHANGED <<wf, tagInput, envInput, answer, pathInput, environment, install_dir,
                   old_release>>

ValidateNext == Validate

SpecValidate == ValidateInit /\ [][ValidateNext]_vars

\* ------------------------------------------- install_roblox_studio alone
\* Asset names a cached release can list; "undefined" stands for an asset
\* the API gave no name for.
AssetNames == {"src.zip", "RbxPI.rbxm", "Alt.rbxm", "RbxPI.rbxm.sha256", Undefined}

\* The releases select_release can have stored in self.release.
StudioReleases ==
    { [tag |-> "v1.0", name |-> "First", assets |-> a] : a \in SeqsUpTo(AssetNames, MaxAssets) }

StudioInit ==
    /\ now = NowTick
    /\ mtime = now
    /\ fileExists = FALSE
    /\ fileText = <<>>
    /\ rbxpi = NoTree
    /\ staging = NoStaging
    /\ archive = NoArchive
    /\ asset = ""
    /\ pc = "i_studio"
    /\ wf = "install"
    /\ exitCode = -1
    /\ log = <<>>
    /\ content = EmptyDict
    /\ days = -1
    /\ response = NoResponse
    /\ fetches = 0
    /\ warned = FALSE
    /\ shown = FALSE
    /\ tagInput = "v1.0"
    /\ envInput = "RS"
    /\ pathInput = ""
    /\ answer = ""
    /\ release \in StudioReleases
    /\ environment = "rs"
    /\ install_dir = ""
    /\ old_release = <<>>
    /\ start = [fileExists |-> FALSE, rbxpi |-> NoTree]
    /\ InitRace

StudioNext == InstallRobloxStudio

SpecStudio == StudioInit /\ [][StudioNext]_vars

\* ------------------------------ Database.get then Database.write, alone
\* Database.write opens data.json with encoding="utf-8" and dumps with
\* ensure_ascii=False; Database.get opens it with open(DATA_FILE, "r"), which
\* decodes with the preferred encoding of the platform: UTF-8 on Linux and
\* macOS, the ANSI code page (cp1252) on Windows with Python 3.10 to 3.14.
\* A character outside ASCII is written "(U+xx)" here.
Encodings == {"utf-8", "cp1252"}

\* The text read when the UTF-8 bytes of s are decoded with enc.
Decode(enc, s) ==
    IF enc = "utf-8" THEN s
    ELSE CASE s = "Caf(U+E9)" -> "Caf(U+C3)(U+A9)"
           [] s = "Caf(U+C3)(U+A9)" -> "Caf(U+C3)(U+192)(U+C2)(U+A9)"
           [] OTHER -> s

\* database.py:93-117 Database.get on a platform whose preferred encoding is
\* enc.
DatabaseGetAs(enc, exists, text) ==
    LET data == DatabaseGet(exists, text)
    IN [i \in 1..Len(data) |->
          [key |-> data[i].key,
           val |-> [tag |-> data[i].val.tag,
                    name |-> Decode(enc, data[i].val.name),
                    assets |-> data[i].val.assets]]]

\* Release names are free text on GitHub.
RoundTripElements ==
    GoodElements \cup { ApiObject("v3.0", "Caf(U+E9)", TRUE, <<Asset("RbxPI.rbxm")>>) }

\* The well-formed files Database.write leaves.
RoundTripTexts ==
    { JsonDump(ParseBody(JsonArray(e))) : e \in SeqsUpTo(RoundTripElements, MaxRoundTrip) }

RoundTripInit ==
    /\ now = NowTick
    /\ mtime = 0
    /\ fileExists = TRUE
    /\ fileText \in RoundTripTexts
    /\ rbxpi = NoTree
    /\ staging = NoStaging
    /\ archive = NoArchive
    /\ asset = ""
    /\ pc = "rt_read"
    /\ wf = "none"
    /\ exitCode = -1
    /\ log = <<>>
    /\ content = EmptyDict
    /\ days = -1
    /\ response = NoResponse
    /\ fetches = 0
    /\ warned = FALSE
    /\ shown = FALSE
    /\ tagInput = ""
    /\ envInput = ""
    /\ pathInput = ""
    /\ answer = ""
    /\ release = NotFound
    /\ environment = NoEnvironment
    /\ install_dir = ""
    /\ old_release = <<>>
    /\ \E enc \in Encodings :
         start = [fileExists |-> TRUE, rbxpi |-> NoTree, encoding |-> enc]
    /\ InitRace

\* database.py:93-117 data = Database.get().
RoundTripRead ==
    /\ pc = "rt_read"
    /\ content' = DatabaseGetAs(start.encoding, fileExists, fileText)
    /\ pc' = "rt_write"
    /\ UNCHANGED <<cacheVars, fsVars, runVars, response, raceVars>>

\* database.py:64-90 Database.write(data).
RoundTripWrite ==
    /\ pc = "rt_write"
    /\ fileText' = DatabaseWrite(fileText, content)
    /\ mtime' = now
    /\ pc' = "rt_done"
    /\ UNCHANGED <<fileExists, now, fsVars, runVars, content, response, raceVars>>

RoundTripNext ==
    \/ RoundTripRead
    \/ RoundTripWrite

SpecRoundTrip == RoundTripInit /\ [][RoundTripNext]_vars

\* ------------------------------------------------ Database.create, alone
\* Mutant of DatabaseCreate: the file is written whether it exists or not.
DatabaseCreateOverwrites(exists, text, tMod, tNow) ==
    [exists |-> TRUE, text |-> JsonDump(EmptyDict), mtime |-> tNow]

\* database.py:27-46 Database.create: the file it leaves.
DatabaseCreate(exists, text, tMod, tNow) ==
    IF ~exists
    THEN [exists |-> TRUE, text |-> JsonDump(EmptyDict), mtime |-> tNow]
    ELSE [exists |-> exists, text |-> text, mtime |-> tMod]

CreateInit ==
    /\ now = NowTick
    /\ \/ fileExists = FALSE /\ fileText = <<>> /\ mtime = now
       \/ fileExists = TRUE /\ fileText \in StoredTexts /\ mtime \in 0..now
    /\ rbxpi = NoTree
    /\ staging = NoStaging
    /\ archive = NoArchive
    /\ asset = ""
    /\ pc = "create_1"
    /\ wf = "none"
    /\ exitCode = -1
    /\ log = <<>>
    /\ content = EmptyDict
    /\ days = -1
    /\ response = NoResponse
    /\ fetches = 0
    /\ warned = FALSE
    /\ shown = FALSE
    /\ tagInput = ""
    /\ envInput = ""
    /\ pathInput = ""
    /\ answer = ""
    /\ release = NotFound
    /\ environment = NoEnvironment
    /\ install_dir = ""
    /\ old_release = <<>>
    /\ start = [fileExists |-> fileExists, rbxpi |-> NoTree, fileText |-> fileText,
                mtime |-> mtime]
    /\ InitRace

\* database.py:27-46 one call of Database.create; it is called twice.
Create ==
    /\ pc \in {"create_1", "create_2"}
    /\ LET file == DatabaseCreate(fileExists, fileText, mtime, now)
       IN /\ fileExists' = file.exists
          /\ fileText' = file.text
          /\ mtime' = file.mtime
    /\ pc' = IF pc = "create_1" THEN "create_2" ELSE "created"
    /\ UNCHANGED <<now, fsVars, runVars, content, response, raceVars>>

CreateNext == Create

SpecCreate == CreateInit /\ [][CreateNext]_vars

\* ------------------------------------------------- Database.get, alone
\* A write that stopped inside an entry: the file ends between two
\* characters of it, or between two bytes of one character.
Cut(where) == [t |-> "cut", inside |-> where]

HasNonAscii(entry) == entry.val.name = "Caf(U+E9)"

\* What a write of the text that stopped after n tokens can leave.
CutAfter(text, n) ==
    {SubSeq(text, 1, n)}
      \cup (IF n < Len(text) /\ text[n + 1].t = "entry"
            THEN {Append(SubSeq(text, 1, n), Cut("entry"))}
                   \cup (IF HasNonAscii(text[n + 1])
                         THEN {Append(SubSeq(text, 1, n), Cut("character"))}
                         ELSE {})
            ELSE {})

\* The files the reads are run on: complete, or left by a write that stopped.
ReadTexts ==
    UNION { UNION { CutAfter(text, n) : n \in 0..Len(text) } : text \in RoundTripTexts }

\* database.py:107-117 the try block of Database.get on a platform whose
\* preferred encoding is enc. json.load reads and decodes the whole file:
\* bytes that are no UTF-8 raise UnicodeDecodeError, which is no
\* JSONDecodeError and is not caught; under cp1252 the first byte of a
\* character decodes on its own and the text is then no JSON.
DatabaseRead(enc, exists, text) ==
    IF exists /\ enc = "utf-8" /\ \E i \in 1..Len(text) :
                     text[i].t = "cut" /\ text[i].inside = "character"
    THEN [raised |-> TRUE, data |-> EmptyDict]
    ELSE [raised |-> FALSE, data |-> DatabaseGetAs(enc, exists, text)]

ReadInit ==
    /\ now = NowTick
    /\ mtime = 0
    /\ fileExists = TRUE
    /\ fileText \in ReadTexts
    /\ rbxpi = NoTree
    /\ staging = NoStaging
    /\ archive = NoArchive
    /\ asset = ""
    /\ pc = "read"
    /\ wf = "none"
    /\ exitCode = -1
    /\ log = <<>>
    /\ content = EmptyDict
    /\ days = -1
    /\ response = NoResponse
    /\ fetches = 0
    /\ warned = FALSE
    /\ shown = FALSE
    /\ tagInput = ""
    /\ envInput = ""
    /\ pathInput = ""
    /\ answer = ""
    /\ release = NotFound
    /\ environment = NoEnvironment
    /\ install_dir = ""
    /\ old_release = <<>>
    /\ \E enc \in Encodings :
         start = [fileExists |-> TRUE, rbxpi |-> NoTree, encoding |-> enc]
    /\ InitRace

\* database.py:93-117 one call of Database.get; an exception it does not
\* catch ends the run with a traceback.
Read ==
    /\ pc = "read"
    /\ LET outcome == DatabaseRead(start.encoding, fileExists, fileText)
       IN IF outcome.raised
          THEN pc' = "raised" /\ exitCode' = 1 /\ UNCHANGED content
          ELSE pc' = "returned" /\ content' = outcome.data /\ UNCHANGED exitCode
    /\ UNCHANGED <<cacheVars, fsVars, response, raceVars>>
    /\ UNCHANGED <<wf, log, days, fetches, warned, shown, tagInput, envInput, answer,
                   pathInput, release, environment, install_dir, old_release, start>>

ReadNext == Read

SpecRead == ReadInit /\ [][ReadNext]_vars

\* ------------------------------------------------- extract_file, alone
\* An entry name of a zip archive is a text; here a sequence of pieces, of
\* which "/" is the separator and ".." the two dots.
Pieces == {"R", "s", "/", ".."}
EntryNames == UNION { [1..n -> Pieces] : n \in 1..MaxNameLen }

\* The entries that follow the first one.
OtherNames == { <<"R", "/", "s">>, <<"..", "/", "s">>, <<"s">> }

\* zip_ref.namelist(): no entry, one entry, or two.
Listings ==
    {<<>>} \cup { <<first>> : first \in EntryNames }
           \cup { <<first, other>> : first \in EntryNames, other \in OtherNames }

\* str.split('/'): the texts between the separators, empty ones included.
RECURSIVE SplitFrom(_, _, _, _)
SplitFrom(name, i, current, done) ==
    IF i > Len(name) THEN Append(done, current)
    ELSE IF name[i] = "/" THEN SplitFrom(name, i + 1, <<>>, Append(done, current))
    ELSE SplitFrom(name, i + 1, Append(current, name[i]), done)

Split(name) == SplitFrom(name, 1, <<>>, <<>>)

\* Mutant of FolderNameOf: the last segment of the first entry.
LastSegmentOf(names) == Split(names[1])[Len(Split(names[1]))]

\* shared.py:138 zip_ref.namelist()[0].split('/')[0]
FolderNameOf(names) == Split(names[1])[1]

\* zipfile.ZipFile._extract_member: the empty, "." and ".." segments of a name
\* are dropped and the rest is joined under the destination.
InvalidPathParts == { <<>>, <<"..">> }
KeptParts(name) == SelectSeq(Split(name), LAMBDA part : part \notin InvalidPathParts)
ExtractedPath(destination, name) == <<destination>> \o KeptParts(name)

\* shared.py:139 zip_ref.extractall(destination)
ExtractAll(names, destination) ==
    [i \in 1..Len(names) |-> ExtractedPath(destination, names[i])]

ExtractInit ==
    /\ now = NowTick
    /\ mtime = 0
    /\ fileExists = FALSE
    /\ fileText = <<>>
    /\ rbxpi = NoTree
    /\ staging = [name |-> <<>>, paths |-> <<>>]
    /\ \E names \in Listings : archive = [names |-> names]
    /\ asset = ""
    /\ pc = "extract"
    /\ wf = "none"
    /\ exitCode = -1
    /\ log = <<>>
    /\ content = EmptyDict
    /\ days = -1
    /\ response = NoResponse
    /\ fetches = 0
    /\ warned = FALSE
    /\ shown = FALSE
    /\ tagInput = ""
    /\ envInput = ""
    /\ pathInput = ""
    /\ answer = ""
    /\ release = NotFound
    /\ environment = NoEnvironment
    /\ install_dir = "project"
    /\ old_release = <<>>
    /\ start = [fileExists |-> FALSE, rbxpi |-> NoTree]
    /\ InitRace

\* shared.py:135-141 extract_file(file_path, destination); namelist()[0] of
\* an archive with no entry raises IndexError before anything is extracted.
ExtractFile ==
    /\ pc = "extract"
    /\ IF archive.names = <<>>
       THEN pc' = "raised" /\ exitCode' = 1 /\ UNCHANGED staging
       ELSE /\ staging' = [name |-> FolderNameOf(archive.names),
                           paths |-> ExtractAll(archive.names, install_dir)]
            /\ pc' = "returned"
            /\ UNCHANGED exitCode
    /\ UNCHANGED <<cacheVars, rbxpi, archive, asset, syncVars, choiceVars, log, start,
                   raceVars>>

ExtractNext == ExtractFile

SpecExtract == ExtractInit /\ [][ExtractNext]_vars

\* ================================================================ claims
InLog(op) == \E i \in 1..Len(log) : log[i] = op

\* The operations of the run on the cache file and the release API, in order.
IsCacheOp(op) == op \in {"create", "get_empty", "get", "fetch", "write", "show"}
CacheLog == SelectSeq(log, IsCacheOp)

\* The age of the cache file in ticks.
AgeTicks == now - mtime

\* C1: in get_release a fetch of the release list is performed if and only
\* if the contents read are empty or the age in whole days is >= 7 (age
\* exactly 7 fetches; a non-empty cache of age 0..6 does not).
C1_FetchIffEmptyOrStale ==
    [][pc = "gr_sync" =>
         ((fetches' = fetches + 1) <=>
            (content = EmptyDict \/ AgeTicks >= RefreshDays * TicksPerDay))]_vars

\* C1 witness: a non-empty cache of age exactly 7 days was refetched.
C1_Witness ==
    /\ pc = "gr_show"
    /\ InLog("get")
    /\ days = RefreshDays
    /\ fetches = 1

\* C2: the staleness warning is displayed exactly when the cache is
\* non-empty and 3 to 6 days old; a run that warned sent no fetch, and a run
\* that refreshed shows no warning.
C2_WarnBetween3And6 ==
    InLog("show") =>
        /\ warned <=> /\ content # EmptyDict
                      /\ AgeTicks >= WarnDays * TicksPerDay
                      /\ AgeTicks < RefreshDays * TicksPerDay
        /\ warned => fetches = 0
        /\ fetches > 0 => ~warned

\* C2 witness: the warning shown at age exactly 3 days, without a fetch.
C2_Witness ==
    /\ InLog("show")
    /\ warned
    /\ AgeTicks = WarnDays * TicksPerDay
    /\ fetches = 0

\* The payload the release-listing endpoint is documented to answer with:
\* a JSON array of objects, each with an assets array.
ExpectedShape(body) ==
    /\ body.kind = "array"
    /\ \A i \in 1..Len(body.items) :
         body.items[i].kind = "object" /\ body.items[i].has_assets

\* C3: when the fetch fails (transport error, HTTP error status, unexpected
\* payload shape) the run ends with a non-zero status and nothing is written
\* to the store. The code accepts the payloads {} and "" as an empty list.
C3_FailedFetchIsFatal ==
    (fetches > 0 /\ (response.status # "ok" \/ ~ExpectedShape(response.body))) =>
        /\ pc = "exited"
        /\ exitCode = 1
        /\ ~InLog("write")

Matches(c, tag) == { i \in 1..Len(c) : c[i].val.tag = tag }

\* C6: release_validation_verification returns the first entry, in
\* iteration order, whose tag equals the requested string exactly, and
\* not-found when no tag is exactly equal, also when one differs only in
\* letter case.
C6_FirstExactMatch ==
    pc = "validated" =>
        IF Matches(content, tagInput) = {}
        THEN release = NotFound
        ELSE /\ release # NotFound
             /\ \E i \in Matches(content, tagInput) :
                  /\ \A j \in Matches(content, tagInput) : i <= j
                  /\ release = content[i].val

\* C6 witness: an entry whose tag differs from the request only in case was
\* passed over, two later entries share the requested tag and the earlier of
\* the two came back.
C6_Witness ==
    /\ pc = "validated"
    /\ \E i, j \in Matches(content, tagInput) :
         /\ i < j
         /\ content[i].val # content[j].val
         /\ release = content[i].val
         /\ \E k \in 1..(i - 1) :
              /\ content[k].val.tag # tagInput
              /\ Lower(content[k].val.tag) = Lower(tagInput)

\* The deployment operations of the run, in order.
IsDeployOp(op) ==
    op \in {"download", "rmtree_rbxpi", "extract", "guard", "copytree", "rmtree_staging"}
DeployLog == SelectSeq(log, IsDeployOp)
ReplaceOrder ==
    <<"download", "rmtree_rbxpi", "extract", "guard", "copytree", "rmtree_staging">>
LastOp == IF log = <<>> THEN "" ELSE log[Len(log)]

\* C7: the Replace step of the update runs download, deletion of RbxPI,
\* extraction, destination check, copy, removal of the staging folder, in
\* this order; the deletion precedes the extraction.
C7_ReplaceOrder ==
    wf = "update" =>
        /\ Len(DeployLog) <= Len(ReplaceOrder)
        /\ DeployLog = SubSeq(ReplaceOrder, 1, Len(DeployLog))

\* C7 witness: an update that ran all six operations.
C7_Witness ==
    /\ wf = "update"
    /\ pc = "done"
    /\ DeployLog = ReplaceOrder

\* C8: when the extraction or the copy fails after the old RbxPI was
\* deleted, the update ends fatally, the old installation is gone, nothing
\* holds a copy of it and no complete installation is in place.
C8_NoRestoreAfterDelete ==
    (wf = "update" /\ pc = "exited" /\ LastOp \in {"extract", "copytree"}) =>
        /\ exitCode = 1
        /\ rbxpi.origin # "old"
        /\ staging.src.origin # "old"
        /\ ~TreeExists(rbxpi) \/ ~rbxpi.whole

\* C8 witness: the copy failed and the project has no RbxPI left.
C8_Witness ==
    /\ wf = "update"
    /\ pc = "exited"
    /\ LastOp = "copytree"
    /\ TreeExists(start.rbxpi)
    /\ ~TreeExists(rbxpi)

\* C9: when <install_dir>/RbxPI exists at the check of the Rojo install, the
\* run ends fatally before anything is copied and RbxPI is as it was at the
\* start.
C9_ExistingDestinationUntouched ==
    (wf = "install" /\ InLog("guard") /\ TreeExists(start.rbxpi)) =>
        /\ pc = "exited"
        /\ exitCode = 1
        /\ LastOp = "guard"
        /\ rbxpi = start.rbxpi

\* C9 witness: the install stopped at the check with RbxPI in place.
C9_Witness ==
    /\ wf = "install"
    /\ pc = "exited"
    /\ LastOp = "guard"
    /\ TreeExists(rbxpi)

\* C10: when a Rojo install or an update completes after the user accepted,
\* RbxPI holds the src/RbxPI of the archive downloaded for the chosen tag
\* and the extracted folder is gone.
C10_DeployedAndCleaned ==
    (pc = "done" /\ InLog("download") /\ environment \notin ROBLOX_STUDIO_ENV) =>
        /\ archive.tag = release.tag
        /\ rbxpi = Tree(archive.tag, ArchiveMarker(archive.tag), TRUE)
        /\ staging = NoStaging

\* C10 witness: an update over an old installation completed.
C10_Witness ==
    /\ pc = "done"
    /\ wf = "update"
    /\ InLog("rmtree_staging")
    /\ TreeExists(rbxpi)

\* Shared.download_file returned (False, None): a download was attempted and
\* no file reached the downloads directory.
DownloadFailed == InLog("download") /\ archive = NoArchive /\ asset = ""

\* C11: a failed artifact download aborts the install or update workflow
\* without terminating the process. Install.download and Update.download
\* call exit(1) on the failure result, as a failed release-list fetch does.
C11_DownloadFailureKeepsProcess ==
    DownloadFailed => ~(pc = "exited" /\ exitCode = 1)

\* How often an operation was logged.
Count(seq, op) == Cardinality({ i \in 1..Len(seq) : seq[i] = op })

\* The position of a step in the install workflow: SelectRelease (the cache
\* synchronisation and the tag prompt), SelectEnvironment, Install, Done.
InstallRank(p) ==
    CASE p = "start" -> 0
      [] p = "gr_exist" -> 1
      [] p = "gr_read" -> 2
      [] p = "gr_sync" -> 3
      [] p = "gr_show" -> 4
      [] p = "i_tag" -> 5
      [] p = "i_env" -> 6
      [] p = "i_install" -> 7
      [] p \in {"i_studio", "i_dir"} -> 8
      [] p = "i_confirm" -> 9
      [] p = "i_answer" -> 10
      [] p = "i_download" -> 11
      [] p = "i_extract" -> 12
      [] p = "i_guard" -> 13
      [] p = "i_copy" -> 14
      [] p = "i_cleanup" -> 15
      [] OTHER -> 16

OncePerRun == {"prompt_tag", "prompt_env", "prompt_dir", "prompt_confirm", "fetch", "download"}

\* C12: every step of an install run moves forward through SelectRelease,
\* SelectEnvironment, Install, Done; each prompt is issued at most once and
\* the release-list fetch and the artifact download are each attempted at
\* most once.
C12_InstallForwardOnly ==
    [][wf' = "install" =>
         /\ InstallRank(pc') > InstallRank(pc)
         /\ \A op \in OncePerRun : Count(log', op) <= 1
         /\ fetches' <= 1]_vars

\* C12 witness: a complete Rojo install after a fetch: every prompt, the
\* fetch and the download happened, once each.
C12_Witness ==
    /\ wf = "install"
    /\ pc = "done"
    /\ \A op \in OncePerRun : Count(log, op) = 1

\* C13: in both workflows, when the tag entered equals no cached release's
\* tag, the run ends fatally at the tag prompt: no environment prompt, no
\* confirmation prompt, no download and no deletion follow.
C13_UnknownTagIsFatal ==
    (InLog("prompt_tag") /\ Matches(content, tagInput) = {}) =>
        /\ pc = "exited"
        /\ exitCode = 1
        /\ LastOp = "prompt_tag"
        /\ release = NotFound
        /\ ~InLog("prompt_env")
        /\ ~InLog("prompt_confirm")
        /\ ~InLog("download")
        /\ ~InLog("rmtree_rbxpi")
        /\ rbxpi = start.rbxpi

\* C13 witness: an update over a full cache was asked for "v9.9.9" and
\* ended at the tag prompt with the old installation in place.
C13_Witness ==
    /\ wf = "update"
    /\ pc = "exited"
    /\ LastOp = "prompt_tag"
    /\ tagInput = "v9.9.9"
    /\ Len(content) = MaxReleases
    /\ TreeExists(rbxpi)

\* The spellings of the aliases among the inputs.
RojoSpellings == {"rojo", "Rojo", "r", "R"}
StudioSpellings ==
    {"roblox studio", "Roblox Studio", "robloxstudio", "rs", "RS"}

\* C14: the Install step routes to the Rojo path exactly when the input is
\* a spelling, in any letter case, of "rojo" or "r", and to the Roblox Studio
\* path exactly when it is one of "roblox studio", "robloxstudio" or "rs";
\* no input takes both paths.
C14_EnvironmentCaseInsensitive ==
    [][pc = "i_install" =>
         /\ (pc' = "i_dir") <=> (envInput \in RojoSpellings)
         /\ (pc' = "i_studio") <=> (envInput \in StudioSpellings)
         /\ ~(pc' = "i_dir" /\ pc' = "i_studio")]_vars

\* C14 witness: the input "RS" reached the Roblox Studio path.
C14_Witness ==
    /\ pc = "i_studio"
    /\ envInput = "RS"
    /\ environment = "rs"

\* C15: an environment input in neither alias set does not abort
\* SelectEnvironment: the environment stays unset and the run advances to the
\* Install step, which ends it fatally before any download or change to the
\* file system.
C15_UnsetThenFatal ==
    [][/\ (pc = "i_env" /\ LastOp' = "prompt_env"
            /\ envInput' \notin (RojoSpellings \cup StudioSpellings)) =>
              /\ pc' = "i_install"
              /\ exitCode' = -1
              /\ environment' = NoEnvironment
       /\ (pc = "i_install" /\ environment = NoEnvironment) =>
              /\ pc' = "exited"
              /\ exitCode' = 1
              /\ ~InLog("download")'
              /\ <<rbxpi, staging, archive, asset>>' = <<start.rbxpi, NoStaging, NoArchive, "">>
              /\ <<fileExists, fileText, mtime>>' = <<fileExists, fileText, mtime>>]_vars

\* C15 witness: the input "vscode" left the environment unset and the run
\* ended at the Install step.
C15_Witness ==
    /\ wf = "install"
    /\ pc = "exited"
    /\ exitCode = 1
    /\ envInput = "vscode"
    /\ environment = NoEnvironment
    /\ LastOp = "prompt_env"

\* The positions of the assets whose name ends in ".rbxm".
RbxmIndexes(assets) == { i \in 1..Len(assets) : EndsWithRbxm(assets[i]) }

\* C16: on the Roblox Studio path the asset downloaded is the first one, in
\* list order, whose name ends in ".rbxm"; when no name ends in ".rbxm"
\* (the empty list included) the run ends fatally and no download is
\* attempted.
C16_FirstRbxmOrFatal ==
    pc # "i_studio" =>
        IF RbxmIndexes(release.assets) = {}
        THEN /\ pc = "exited"
             /\ exitCode = 1
             /\ ~InLog("download")
             /\ asset = ""
        ELSE /\ InLog("download")
             /\ pc = "done" =>
                  \E i \in RbxmIndexes(release.assets) :
                     /\ \A j \in RbxmIndexes(release.assets) : i <= j
                     /\ asset = release.assets[i]

\* C16 witness: the list starts with an asset that is no .rbxm, two
\* different .rbxm assets follow, and the earlier of the two was downloaded.
C16_Witness ==
    /\ pc = "done"
    /\ 1 \notin RbxmIndexes(release.assets)
    /\ \E i, j \in RbxmIndexes(release.assets) :
         /\ i < j
         /\ release.assets[i] # release.assets[j]
         /\ asset = release.assets[i]

\* C17: in the update workflow, a path that is not a directory, or a
\* directory without RbxPI in it, ends the run fatally at the directory
\* prompt: no version detection, no cache access, no download and no deletion
\* follow.
C17_LocateInstallFatal ==
    (wf = "update" /\ pathInput # "" /\ (~IsDir(pathInput) \/ ~TreeExists(start.rbxpi))) =>
        /\ pc = "exited"
        /\ exitCode = 1
        /\ log = <<"prompt_dir">>
        /\ install_dir = ""
        /\ old_release = <<>>
        /\ fetches = 0
        /\ content = EmptyDict
        /\ fileExists = start.fileExists
        /\ rbxpi = start.rbxpi
        /\ archive = NoArchive

\* C17 witness: the path is a directory, it holds no RbxPI, and the run
\* ended at the prompt.
C17_Witness ==
    /\ wf = "update"
    /\ pc = "exited"
    /\ IsDir(pathInput)
    /\ ~TreeExists(start.rbxpi)

\* C18: in the update workflow, when Version.txt is absent from the
\* installation, the current version is "unknown", the run does not end and
\* it goes on to the selection of the target release.
C18_AbsentMarkerIsUnknown ==
    [][(pc = "u_old" /\ rbxpi.marker = <<Missing>>) =>
         /\ old_release' = Unknown
         /\ pc' = "gr_exist"
         /\ exitCode' = -1]_vars

\* C18 witness: the run is at the tag prompt of the update with the version
\* "unknown", the installation having no Version.txt.
C18_Witness ==
    /\ pc = "u_tag"
    /\ wf = "update"
    /\ old_release = Unknown
    /\ TreeExists(rbxpi)
    /\ rbxpi.marker = <<Missing>>

\* A Version.txt that is there and holds less than the five characters of a
\* version.
Malformed(marker) == marker # <<Missing>> /\ Len(marker) < 5

\* C19: in the update workflow, when Version.txt is present but malformed
\* (empty, or shorter than five characters), the current version is
\* "unknown". get_old_release gives "v" followed by what it read.
C19_MalformedMarkerIsUnknown ==
    (wf = "update" /\ old_release # <<>> /\ Malformed(start.rbxpi.marker)) =>
        old_release = Unknown

\* The releases built from the elements of a response, in order.
Built(body) == [i \in 1..Len(body.items) |-> ParseElement(body.items[i])]

\* C20: after a successful refresh the persisted collection is exactly the
\* collection built from the response of that fetch, keyed "0", "1", ...: no
\* entry of the previous contents survives unless the response holds it,
\* and nothing is merged.
C20_RefreshReplacesWholesale ==
    [][(pc = "gr_sync" /\ pc' = "gr_show" /\ fetches' = fetches + 1) =>
         LET persisted == DatabaseGet(fileExists', fileText')
         IN /\ Values(persisted) = Built(response'.body)
            /\ \A i \in 1..Len(persisted) : persisted[i].key = StrKeys[i]
            /\ content' = persisted
            /\ \A i \in 1..Len(content) :
                 (\E j \in 1..Len(persisted) : persisted[j].val = content[i].val) =>
                     \E k \in 1..Len(response'.body.items) :
                        ParseElement(response'.body.items[k]) = content[i].val]_vars

\* C20 witness: a stale, non-empty cache was refreshed and the collection
\* read back is longer than any collection persisted at the start.
C20_Witness ==
    /\ pc = "gr_show"
    /\ CacheLog = <<"get", "fetch", "write", "get">>
    /\ Len(content) > MaxStored
    /\ Values(content) = Built(response.body)

\* C21: for every well-formed persisted cache, write(read()) leaves the
\* persisted contents as they were. Database.get decodes the file with the
\* platform's preferred encoding, Database.write encodes it as UTF-8.
C21_WriteReadIsNoOp ==
    [][pc = "rt_write" => fileText' = fileText]_vars

\* C22: create() on absent storage leaves storage holding an empty
\* collection; create() on existing storage changes neither its contents nor
\* its last-modified time; two calls leave what one call leaves.
C22_CreateIdempotent ==
    pc \in {"create_2", "created"} =>
        IF start.fileExists
        THEN <<fileExists, fileText, mtime>> = <<TRUE, start.fileText, start.mtime>>
        ELSE /\ fileExists
             /\ fileText = <<Open, Close>>
             /\ DatabaseGet(fileExists, fileText) = EmptyDict

\* C22 witness: create() was called twice on a store that held a release
\* and was last modified before now.
C22_Witness ==
    /\ pc = "created"
    /\ start.fileExists
    /\ DatabaseGet(fileExists, fileText) # EmptyDict
    /\ mtime < now

\* A file that is not one complete JSON document: empty, or cut short.
Truncated(text) == text = <<>> \/ text[Len(text)].t # "}"

\* C23: read() on structurally corrupted storage returns the empty
\* collection without raising and without modifying the storage. A file cut
\* between the bytes of a character makes Database.get raise.
C23_CorruptReadsEmpty ==
    (pc # "read" /\ Truncated(fileText)) =>
        /\ pc = "returned"
        /\ exitCode = -1
        /\ content = EmptyDict

\* C24: an interrupt while a workflow prompt waits ends the process at once
\* with the closing message (exit status 1): it is the last operation of the
\* run, and the cache file and the project folder stay as they were, a
\* refresh already written included.
C24_InterruptEndsRunKeepsFiles ==
    [][/\ InLog("interrupt")' =>
              /\ pc' = "exited"
              /\ exitCode' = 1
              /\ LastOp' = "interrupt"
       /\ (~InLog("interrupt") /\ InLog("interrupt")') =>
              /\ pc \in PromptPcs
              /\ cacheVars' = cacheVars
              /\ fsVars' = fsVars]_vars

C24_Witness ==
    /\ LastOp = "interrupt"
    /\ pc = "exited"
    /\ InLog("write")
    /\ content # EmptyDict
    /\ fileText = JsonDump(content)
    /\ mtime = now

\* The answers that accept: the empty line and the letter y in either case.
AcceptingAnswers == {"", "y", "Y"}

\* C25: at the confirmation prompt of the Rojo install and of the update, the
\* empty answer and "y" in either case go on to the download; every other
\* answer ends the workflow with no fatal error, nothing downloaded and the
\* install directory as it was.
C25_ConfirmAcceptsOrDeclines ==
    [][/\ (pc \in {"i_answer", "u_answer"} /\ answer \in AcceptingAnswers) =>
              /\ pc' = (IF pc = "i_answer" THEN "i_download" ELSE "u_download")
              /\ exitCode' = -1
       /\ (pc \in {"i_answer", "u_answer"} /\ answer \notin AcceptingAnswers) =>
              /\ LastOp' = "decline"
              /\ fsVars' = fsVars
       /\ InLog("decline")' =>
              /\ pc' = "done"
              /\ exitCode' = 0
              /\ LastOp' = "decline"
              /\ ~InLog("download")'
              /\ rbxpi' = start.rbxpi
              /\ archive' = NoArchive
              /\ staging' = NoStaging]_vars

C25_Witness ==
    /\ wf = "update"
    /\ LastOp = "decline"
    /\ pc = "done"
    /\ TreeExists(rbxpi)
    /\ rbxpi = start.rbxpi

\* The pieces of the name before its first "/", or the whole name when it
\* has none.
BeforeFirstSlash(name) ==
    LET stops == { k \in 0..Len(name) :
                     /\ \A i \in 1..k : name[i] # "/"
                     /\ k = Len(name) \/ name[k + 1] = "/" }
    IN SubSeq(name, 1, CHOOSE k \in stops : TRUE)

\* The path lies under the destination: it starts there and never steps up.
Beneath(destination, path) ==
    /\ Len(path) >= 1
    /\ path[1] = destination
    /\ \A j \in 2..Len(path) : path[j] # <<"..">> /\ path[j] # <<>>

\* C26: for an archive with at least one entry, extract_file returns the text
\* of the first listed name before its first "/", and every entry is
\* extracted beneath the destination.
C26_FirstSegmentAndAllExtracted ==
    (pc # "extract" /\ archive.names # <<>>) =>
        /\ pc = "returned"
        /\ staging.name = BeforeFirstSlash(archive.names[1])
        /\ Len(staging.paths) = Len(archive.names)
        /\ \A i \in 1..Len(archive.names) :
              /\ Beneath(install_dir, staging.paths[i])
              /\ \A j \in 1..Len(archive.names[i]) :
                    archive.names[i][j] \notin {"/", ".."} =>
                        \E k \in 2..Len(staging.paths[i]) :
                            \E m \in 1..Len(staging.paths[i][k]) :
                                staging.paths[i][k][m] = archive.names[i][j]

C26_Witness ==
    /\ pc = "returned"
    /\ archive.names = << <<"R", "/", "s">>, <<"..", "/", "s">> >>
    /\ staging.name = <<"R">>
    /\ staging.paths = << <<"project", <<"R">>, <<"s">> >>, <<"project", <<"s">> >> >>

\* The value entry i of the refreshed collection is to carry for the array
\* element: its fields, "undefined" where the element lacks one.
Carried(element) ==
    [tag |-> IF element.tag_name = Missing THEN "undefined" ELSE element.tag_name,
     name |-> IF element.name = Missing THEN "undefined" ELSE element.name,
     assets |-> [j \in 1..Len(element.assets) |->
                    IF element.assets[j].name = Missing THEN "undefined"
                    ELSE element.assets[j].name]]

\* C27: a fetch that succeeds on an array of n elements leaves a collection
\* keyed 0..n-1 whose entry i carries the tag, name and asset names of the
\* i-th element, in the order of the response, nothing sorted or merged,
\* with "undefined" for a missing tag_name, name or asset name.
C27_FetchMapsArrayInOrder ==
    [][(pc = "gr_sync" /\ pc' = "gr_show" /\ fetches' = fetches + 1) =>
          LET items == response'.body.items
          IN /\ Len(content') = Len(items)
             /\ fileText' = JsonDump(content')
             /\ \A i \in 1..Len(items) :
                   /\ content'[i].key = StrKeys[i]
                   /\ content'[i].val = Carried(items[i])]_vars

C27_Witness ==
    /\ pc = "gr_show"
    /\ fetches = 1
    /\ Len(response.body.items) = 2
    /\ response.body.items[1].tag_name = "v2.0"
    /\ response.body.items[2].tag_name = Missing
    /\ content[1].val.tag = "v2.0"
    /\ content[2].val = [tag |-> "undefined", name |-> "undefined", assets |-> <<"undefined">>]

\* C28: while the cache file holds a non-empty collection younger than 7
\* days, no step of the run asks the API or changes the file, its
\* modification time included: a cache hit does not renew the cache's age.
C28_CacheHitLeavesStore ==
    [][(DatabaseGet(fileExists, fileText) # EmptyDict
          /\ AgeTicks < RefreshDays * TicksPerDay) =>
            /\ fetches' = fetches
            /\ <<fileExists, fileText, mtime>>' = <<fileExists, fileText, mtime>>
            /\ CacheLog' \in {CacheLog, Append(CacheLog, "get"), Append(CacheLog, "show")}]_vars

C28_Witness ==
    /\ InLog("show")
    /\ fetches = 0
    /\ content # EmptyDict
    /\ content = DatabaseGet(fileExists, fileText)
    /\ AgeTicks > 0
    /\ AgeTicks < RefreshDays * TicksPerDay

\* The place of the first occurrence of an operation in the run, 0 if none.
FirstAt(op) ==
    IF InLog(op) THEN CHOOSE i \in 1..Len(log) : log[i] = op /\ \A j \in 1..(i - 1) : log[j] # op
    ELSE 0

\* C29: in an update, <install_dir>/RbxPI is as it was at the start until
\* its deletion, and the deletion comes only after the install directory
\* was validated, the tag was found in the cache, the confirmation was
\* accepted and the archive was downloaded, in this run; a run that ends
\* earlier leaves RbxPI unchanged.
C29_DeleteOnlyAfterAllGates ==
    wf = "update" =>
        /\ ~InLog("rmtree_rbxpi") => rbxpi = start.rbxpi
        /\ InLog("rmtree_rbxpi") =>
              /\ IsDir(install_dir) /\ TreeExists(start.rbxpi)
              /\ release # NotFound /\ Matches(content, release.tag) # {}
              /\ archive # NoArchive /\ archive.tag = release.tag
              /\ 0 < FirstAt("prompt_dir")
              /\ FirstAt("prompt_dir") < FirstAt("prompt_tag")
              /\ FirstAt("prompt_tag") < FirstAt("accept")
              /\ FirstAt("accept") < FirstAt("download")
              /\ FirstAt("download") < FirstAt("rmtree_rbxpi")
              /\ ~InLog("decline") /\ ~InLog("interrupt")

C29_Witness ==
    /\ wf = "update"
    /\ LastOp = "rmtree_rbxpi"
    /\ pc = "u_extract"
    /\ TreeExists(start.rbxpi)
    /\ ~TreeExists(rbxpi)

\* C30: once get_release has returned, the cache file is younger than 7 days
\* and the collection in hand is what the file holds; no collection from a
\* file 7 days old or older reaches a workflow.
C30_ReturnedIsFreshAndStored ==
    InLog("show") =>
        /\ AgeTicks < RefreshDays * TicksPerDay
        /\ fileExists
        /\ content = DatabaseGet(fileExists, fileText)
        /\ fileText = JsonDump(content)

C30_Witness ==
    /\ InLog("show")
    /\ pc \in {"i_tag", "u_tag"}
    /\ CacheLog = <<"get", "fetch", "write", "get", "show">>
    /\ fetches = 1
    /\ content # EmptyDict
    /\ AgeTicks = 0

\* C31: when the Rojo install stops at the destination check, the archive
\* was downloaded and extracted into install_dir before the check, the
\* extracted folder is still there after the exit, and RbxPI is as it was:
\* install_dir is not put back to what it held before the run.
C31_AbortLeavesStagingFolder ==
    (wf = "install" /\ pc = "exited" /\ LastOp = "guard") =>
        /\ exitCode = 1
        /\ DeployLog = <<"download", "extract", "guard">>
        /\ archive # NoArchive /\ archive.zip /\ archive.tag = release.tag
        /\ staging # NoStaging
        /\ staging = Extracted(archive, TRUE)
        /\ IsDir(install_dir)
        /\ TreeExists(rbxpi) /\ rbxpi = start.rbxpi

C31_Witness ==
    /\ wf = "install"
    /\ pc = "exited"
    /\ LastOp = "guard"
    /\ staging.name = "rbxpi-core-2.0"
    /\ TreeExists(staging.src)
    /\ rbxpi.origin = "old"

\* The response is an array with an object that has no "assets" key.
LacksAssets(resp) ==
    /\ resp.status = "ok"
    /\ resp.body.kind = "array"
    /\ \E i \in 1..Len(resp.body.items) :
          resp.body.items[i].kind = "object" /\ ~resp.body.items[i].has_assets

\* C32: a release-list response with an element that has no assets array
\* makes the fetch fatal: the run ends with status 1 and the cache file is
\* not written, also when the elements before it were well formed.
C32_MissingAssetsIsFatal ==
    [][(fetches' = fetches + 1 /\ LacksAssets(response')) =>
          /\ pc' = "exited"
          /\ exitCode' = 1
          /\ LastOp' = "fetch"
          /\ ~InLog("write")'
          /\ content' = content
          /\ cacheVars' = cacheVars]_vars

C32_Witness ==
    /\ pc = "exited"
    /\ exitCode = 1
    /\ LastOp = "fetch"
    /\ LacksAssets(response)
    /\ Len(response.body.items) = 2
    /\ response.body.items[1].has_assets
    /\ content # EmptyDict
    /\ fileText = JsonDump(content)

\* The process has ended: the workflow returned, or a fatal exit.
Terminated == pc \in {"done", "exited"}

\* C33: every install run and every update run ends, in Done or in a fatal
\* exit, when each prompt gets a line or an interrupt and each network call
\* returns or fails; the workflow never loops or waits on its own.
C33_EveryRunTerminates == (wf \in {"install", "update"}) ~> Terminated

C33_Witness ==
    /\ wf = "install"
    /\ Terminated
    /\ exitCode = 0
    /\ CacheLog = <<"create", "get_empty", "fetch", "write", "get", "show">>
    /\ DeployLog = <<"download", "extract", "guard", "copytree", "rmtree_staging">>

====
